---------------------------- MODULE Spec2Model ----------------------------
(***************************************************************************)
(* Model of orient_custom_shape.py: BONE_OT_orient_custom_shape.execute.   *)
(*                                                                         *)
(* The operator reads the host's context (active object, active pose bone, *)
(* the bone's custom shape), the bone chain and the armature, and writes   *)
(* the shape object's rotation_euler, location and scale.                  *)
(*                                                                         *)
(* Arithmetic.  mathutils works on floats; the model works exactly, on the *)
(* rotations that are multiples of a quarter turn about the axes: an Euler *)
(* angle is an integer number of quarter turns, a matrix has entries in    *)
(* {-1, 0, 1}, a vector has integer components.  Euler.rotate and          *)
(* Vector.rotate are modelled by what mathutils does: Euler -> matrix,     *)
(* matrix product, matrix -> Euler compatible with the previous angles.    *)
(***************************************************************************)
EXTENDS Integers, Sequences, FiniteSets, TLC

\* ---------------------------------------------------------------- bounds
NumBones == 3

Bones == 1..NumBones

\* ------------------------------------------------------ vectors, matrices
Zero3 == <<0, 0, 0>>
Unit3 == <<1, 1, 1>>

VecAdd(u, v) == <<u[1] + v[1], u[2] + v[2], u[3] + v[3]>>

\* s * Vector(v)
VecScale(s, v) == <<s * v[1], s * v[2], s * v[3]>>

\* Matrices are tuples of rows: M[r][c].
Identity3 == <<<<1, 0, 0>>, <<0, 1, 0>>, <<0, 0, 1>>>>

Dot(u, v) == u[1] * v[1] + u[2] * v[2] + u[3] * v[3]

\* Matrix.transposed()
Transposed(M) ==
    << <<M[1][1], M[2][1], M[3][1]>>,
       <<M[1][2], M[2][2], M[3][2]>>,
       <<M[1][3], M[2][3], M[3][3]>> >>

MatVec(A, v) == <<Dot(A[1], v), Dot(A[2], v), Dot(A[3], v)>>

MatMul(A, B) ==
    LET Bt == Transposed(B)
    IN  << <<Dot(A[1], Bt[1]), Dot(A[1], Bt[2]), Dot(A[1], Bt[3])>>,
           <<Dot(A[2], Bt[1]), Dot(A[2], Bt[2]), Dot(A[2], Bt[3])>>,
           <<Dot(A[3], Bt[1]), Dot(A[3], Bt[2]), Dot(A[3], Bt[3])>> >>

\* Matrix((x_axis, y_axis, z_axis)).transposed(): the axes become columns.
BasisMatrix(b) == Transposed(<<b.x_axis, b.y_axis, b.z_axis>>)

\* ----------------------------------------------------------- Euler angles
\* Angles are counted in quarter turns.
QMod(q) == ((q % 4) + 4) % 4
CosQ(q) == <<1, 0, -1, 0>>[QMod(q) + 1]
SinQ(q) == <<0, 1, 0, -1>>[QMod(q) + 1]

\* Euler (order XYZ) -> rotation matrix: Rz(e[3]) * Ry(e[2]) * Rx(e[1]).
EulToMat3(e) ==
    LET ci == CosQ(e[1])  cj == CosQ(e[2])  ch == CosQ(e[3])
        si == SinQ(e[1])  sj == SinQ(e[2])  sh == SinQ(e[3])
        cc == ci * ch  cs == ci * sh  sc == si * ch  ss == si * sh
    IN  << <<cj * ch, sj * sc - cs, sj * cc + ss>>,
           <<cj * sh, sj * ss + cc, sj * cs - sc>>,
           <<-sj,     cj * si,      cj * ci>> >>

\* atan2 on the arguments a quarter-turn rotation matrix produces.
Atan2Q(y, x) ==
    CASE x > 0 /\ y = 0 -> 0
      [] x = 0 /\ y > 0 -> 1
      [] x < 0 /\ y = 0 -> 2
      [] x = 0 /\ y < 0 -> -1

\* The two Euler solutions of a rotation matrix (order XYZ); one when the
\* matrix is at gimbal lock.
Mat3ToEul2(M) ==
    LET cy == M[1][1] * M[1][1] + M[2][1] * M[2][1]
    IN  IF cy > 0
        THEN << <<Atan2Q(M[3][2], M[3][3]),   Atan2Q(-M[3][1], cy),  Atan2Q(M[2][1], M[1][1])>>,
                <<Atan2Q(-M[3][2], -M[3][3]), Atan2Q(-M[3][1], -cy), Atan2Q(-M[2][1], -M[1][1])>> >>
        ELSE LET e == <<Atan2Q(-M[2][3], M[2][2]), Atan2Q(-M[3][1], cy), 0>>
             IN  <<e, e>>

\* Bring an angle within less than a full turn of the old one (5.1 rad lies
\* between 3 and 4 quarter turns).
RECURSIVE Unwind(_, _)
Unwind(a, old) ==
    IF a - old > 3 THEN Unwind(a - 4, old)
    ELSE IF a - old < -3 THEN Unwind(a + 4, old)
    ELSE a

Abs(n) == IF n < 0 THEN -n ELSE n

\* compatible_eul: 3.2 rad lies between 2 and 3 quarter turns, 1.6 rad
\* between 1 and 2.
CompatibleEul(eul, old) ==
    LET u == <<Unwind(eul[1], old[1]), Unwind(eul[2], old[2]), Unwind(eul[3], old[3])>>
        d == <<u[1] - old[1], u[2] - old[2], u[3] - old[3]>>
        Flip(i, j, k) ==
            IF Abs(d[i]) > 2 /\ Abs(d[j]) < 2 /\ Abs(d[k]) < 2
            THEN (IF d[i] > 0 THEN u[i] - 4 ELSE u[i] + 4)
            ELSE u[i]
    IN  <<Flip(1, 2, 3), Flip(2, 3, 1), Flip(3, 1, 2)>>

EulDist(e, old) == Abs(e[1] - old[1]) + Abs(e[2] - old[2]) + Abs(e[3] - old[3])

\* mat3_to_compatible_eul: of the two solutions, the one nearer the old angles.
Mat3ToCompatibleEul(old, M) ==
    LET two == Mat3ToEul2(M)
        e1 == CompatibleEul(two[1], old)
        e2 == CompatibleEul(two[2], old)
    IN  IF EulDist(e1, old) > EulDist(e2, old) THEN e2 ELSE e1

\* Euler.rotate(other): the other rotation is applied after the current one.
EulerRotate(eul, R) == Mat3ToCompatibleEul(eul, MatMul(R, EulToMat3(eul)))

\* Vector.rotate(other)
VectorRotate(v, R) == MatVec(R, v)

\* ------------------------------------------------------------ input sets
IdAxes == [x_axis |-> <<1, 0, 0>>, y_axis |-> <<0, 1, 0>>, z_axis |-> <<0, 0, 1>>]
RotX90Axes == [x_axis |-> <<1, 0, 0>>, y_axis |-> <<0, 0, 1>>, z_axis |-> <<0, -1, 0>>]
RotY90Axes == [x_axis |-> <<0, 0, -1>>, y_axis |-> <<0, 1, 0>>, z_axis |-> <<1, 0, 0>>]
BoneAxes == {IdAxes, RotX90Axes, RotY90Axes}

Heads == {Zero3, <<1, 2, 3>>}
Lengths == {1, 2}

Armatures ==
    { [location |-> Zero3,        rotation_euler |-> Zero3,       scale |-> Unit3],
      [location |-> <<5, 0, 0>>,  rotation_euler |-> Zero3,       scale |-> Unit3],
      [location |-> <<5, 0, -2>>, rotation_euler |-> <<1, 0, 0>>, scale |-> Unit3],
      [location |-> <<0, 4, 0>>,  rotation_euler |-> <<0, 0, 1>>, scale |-> <<1, 1, 2>>] }

Shapes ==
    { [location |-> Zero3,       rotation_euler |-> Zero3,       scale |-> Unit3],
      [location |-> <<7, 7, 7>>, rotation_euler |-> <<1, 0, 2>>, scale |-> <<4, 1, 1>>] }

\* The host's report types (Operator.report raises TypeError on any other).
ReportTypes == {"DEBUG", "INFO", "OPERATOR", "PROPERTY", "WARNING", "ERROR",
                "ERROR_INVALID_INPUT", "ERROR_INVALID_CONTEXT", "ERROR_OUT_OF_MEMORY"}

\* ------------------------------------------------------------------ state
VARIABLES
    active_object,     \* bpy.context.active_object: TRUE when there is one
    active_pose_bone,  \* bpy.context.active_pose_bone: a bone, or 0 for None
    custom_shape,      \* activePoseBone.custom_shape: TRUE when it is an object
    bones,             \* armature.data.bones
    armature,          \* the armature object's location, rotation_euler, scale
    shapeObject,       \* the shape object's location, rotation_euler, scale
    pc,                \* the line execute is at; "idle" before, "done" after
    bone,              \* local: the target bone (0 before line 81)
    boneChain,         \* local: the chain walked by the loop of line 93
    idx,               \* local: position of the loop of line 93 in boneChain
    result,            \* what the invocation ended with
    reports,           \* the messages self.report has surfaced
    again,             \* history: TRUE when an invocation came before this one
    pre,               \* history: shape and show_wire flags when execute was entered
    prev,              \* history: the shape as the previous invocation left it
    writes             \* history: the writes of this invocation, in order

vars == <<active_object, active_pose_bone, custom_shape, bones, armature,
          shapeObject, pc, bone, boneChain, idx, result, reports, again,
          pre, prev, writes>>

host == <<active_object, active_pose_bone, custom_shape, armature>>
locals == <<bone, boneChain, idx>>
history == <<again, pre, prev>>

\* bone.parent_recursive: the ancestors, parent first.
RECURSIVE ParentRecursiveShort(_, _)
ParentRecursiveShort(bs, b) ==
    IF bs[b].parent = 0 \/ bs[bs[b].parent].parent = 0 THEN <<>>
    ELSE <<bs[b].parent>> \o ParentRecursiveShort(bs, bs[b].parent)

RECURSIVE ParentRecursive(_, _)
ParentRecursive(bs, b) ==
    IF bs[b].parent = 0 THEN <<>>
    ELSE <<bs[b].parent>> \o ParentRecursive(bs, bs[b].parent)

InChain(bs, target, b) ==
    target # 0 /\ (b = target \/ \E i \in 1..Len(ParentRecursive(bs, target)) :
                                    ParentRecursive(bs, target)[i] = b)

MakeBone(ax, hd, len, p) ==
    [x_axis |-> ax.x_axis, y_axis |-> ax.y_axis, z_axis |-> ax.z_axis,
     head_local |-> hd, length |-> len, parent |-> p, show_wire |-> FALSE]

\* A bone the inputs do not vary: bone b starts b units up its armature and
\* is 3 long.
DefaultBone(b, p) == MakeBone(IdAxes, <<0, b, 0>>, 3, p)

ParentMaps == {p \in [Bones -> 0..(NumBones - 1)] : \A b \in Bones : p[b] \in {0, b - 1}}

\* The state the host can be in when the button is pressed: the parent
\* relation is acyclic (a bone's parent is created before it); the axes of
\* every bone of the active bone's chain vary, and the active bone's head
\* and length.
Init ==
    /\ active_object \in BOOLEAN
    /\ active_pose_bone \in 0..NumBones
    /\ custom_shape \in BOOLEAN
    /\ \E par \in ParentMaps, ax \in [Bones -> BoneAxes], hd \in Heads, len \in Lengths :
          LET skel == [b \in Bones |-> DefaultBone(b, par[b])]
          IN  bones = [b \in Bones |->
                        IF b = active_pose_bone THEN MakeBone(ax[b], hd, len, par[b])
                        ELSE IF InChain(skel, active_pose_bone, b)
                        THEN [skel[b] EXCEPT !.x_axis = ax[b].x_axis,
                                             !.y_axis = ax[b].y_axis,
                                             !.z_axis = ax[b].z_axis]
                        ELSE skel[b]]
    /\ armature \in Armatures
    /\ shapeObject \in Shapes
    /\ pc = "idle"
    /\ bone = 0
    /\ boneChain = <<>>
    /\ idx = 0
    /\ result = "none"
    /\ reports = <<>>
    /\ again = FALSE
    /\ pre = [shape |-> shapeObject, show_wire |-> [b \in Bones |-> FALSE]]
    /\ prev = shapeObject
    /\ writes = <<>>

\* ------------------------------------------------------------- the operator
\* The button is pressed: the host calls execute.
Invoke ==
    /\ pc \in {"idle", "done"}
    /\ again' = (pc = "done")
    /\ pc' = "l76"
    /\ bone' = 0
    /\ boneChain' = <<>>
    /\ idx' = 0
    /\ result' = "none"
    /\ reports' = <<>>
    /\ writes' = <<>>
    /\ pre' = [shape |-> shapeObject, show_wire |-> [b \in Bones |-> bones[b].show_wire]]
    /\ prev' = shapeObject
    /\ UNCHANGED <<host, bones, shapeObject>>

\* An exception leaves execute.
Raise(exc) ==
    /\ pc' = "done"
    /\ result' = exc

\* Lines 76-77: bpy.context.active_object.name; None has no attribute name.
ResolveArmature ==
    /\ pc = "l76"
    /\ IF active_object
       THEN pc' = "l79" /\ UNCHANGED result
       ELSE Raise("AttributeError")
    /\ UNCHANGED <<host, bones, shapeObject, locals, reports, history, writes>>

\* Lines 79-81: bpy.context.active_pose_bone.name, armature.data.bones[boneName].
ResolveBone ==
    /\ pc = "l79"
    /\ IF active_pose_bone # 0
       THEN pc' = "l83" /\ bone' = active_pose_bone /\ UNCHANGED result
       ELSE Raise("AttributeError") /\ UNCHANGED bone
    /\ UNCHANGED <<host, bones, shapeObject, boneChain, idx, reports, history, writes>>

ResolveShapeAfterReset ==
    /\ pc = "l83"
    /\ shapeObject' = [shapeObject EXCEPT !.rotation_euler = Zero3]
    /\ IF custom_shape
       THEN pc' = "l87" /\ UNCHANGED result
       ELSE Raise("AttributeError")
    /\ UNCHANGED <<host, bones, locals, reports, history, writes>>

\* Lines 83-84: activePoseBone.custom_shape.name, bpy.data.objects[objectName].
ResolveShape ==
    /\ pc = "l83"
    /\ IF custom_shape
       THEN pc' = "l87" /\ UNCHANGED result
       ELSE Raise("AttributeError")
    /\ UNCHANGED <<host, bones, shapeObject, locals, reports, history, writes>>

ResetRotationSkipped ==
    /\ pc = "l87"
    /\ writes' = Append(writes, <<"rotation_reset", 0>>)
    /\ pc' = "l88"
    /\ UNCHANGED <<host, bones, shapeObject, locals, result, reports, history>>

\* Line 87: shapeObject.rotation_euler = (0.0, 0.0, 0.0)
ResetRotation ==
    /\ pc = "l87"
    /\ shapeObject' = [shapeObject EXCEPT !.rotation_euler = Zero3]
    /\ writes' = Append(writes, <<"rotation_reset", 0>>)
    /\ pc' = "l88"
    /\ UNCHANGED <<host, bones, locals, result, reports, history>>

BuildChainAppend ==
    /\ pc = "l88"
    /\ boneChain' = Append(ParentRecursive(bones, bone), bone)
    /\ idx' = 1
    /\ pc' = "l91"
    /\ UNCHANGED <<host, bones, shapeObject, bone, result, reports, history, writes>>

\* Lines 88-89: boneChain = bone.parent_recursive; boneChain.insert(0, bone)
BuildChain ==
    /\ pc = "l88"
    /\ boneChain' = <<bone>> \o ParentRecursive(bones, bone)
    /\ idx' = 1
    /\ pc' = "l91"
    /\ UNCHANGED <<host, bones, shapeObject, bone, result, reports, history, writes>>

\* Line 91: bone.show_wire = True
ShowWire ==
    /\ pc = "l91"
    /\ bones' = [bones EXCEPT ![bone].show_wire = TRUE]
    /\ writes' = Append(writes, <<"show_wire", bone>>)
    /\ pc' = "l93"
    /\ UNCHANGED <<host, shapeObject, locals, result, reports, history>>

\* Lines 93-95, one iteration: rotate the shape by the next bone of the chain.
RotateByBone ==
    /\ pc = "l93"
    /\ idx <= Len(boneChain)
    /\ shapeObject' = [shapeObject EXCEPT !.rotation_euler =
                          EulerRotate(@, BasisMatrix(bones[boneChain[idx]]))]
    /\ writes' = Append(writes, <<"rotate_bone", boneChain[idx]>>)
    /\ idx' = idx + 1
    /\ UNCHANGED <<host, bones, pc, bone, boneChain, result, reports, history>>

\* Line 93: the chain is exhausted.
EndLoop ==
    /\ pc = "l93"
    /\ idx > Len(boneChain)
    /\ pc' = "l98"
    /\ UNCHANGED <<host, bones, shapeObject, locals, result, reports, history, writes>>

RECURSIVE SumHeads(_, _)
SumHeads(bs, chain) ==
    IF chain = <<>> THEN Zero3
    ELSE VecAdd(bs[Head(chain)].head_local, SumHeads(bs, Tail(chain)))

HeadLocalAccumulated(bs, b) == SumHeads(bs, <<b>> \o ParentRecursive(bs, b))

\* The position the shape is given at line 98.
HeadLocal(bs, b) == bs[b].head_local

\* Line 98: shapeObject.location = bone.head_local (the values are copied).
SetLocation ==
    /\ pc = "l98"
    /\ shapeObject' = [shapeObject EXCEPT !.location = HeadLocal(bones, bone)]
    /\ writes' = Append(writes, <<"location_set", 0>>)
    /\ pc' = "l99"
    /\ UNCHANGED <<host, bones, locals, result, reports, history>>

SetScaleByArmature ==
    /\ pc = "l99"
    /\ shapeObject' = [shapeObject EXCEPT !.scale =
                          [i \in 1..3 |-> bones[bone].length * armature.scale[i]]]
    /\ writes' = Append(writes, <<"scale_set", 0>>)
    /\ pc' = "l103"
    /\ UNCHANGED <<host, bones, locals, result, reports, history>>

\* Line 99: shapeObject.scale = bone.length * Vector((1.0, 1.0, 1.0))
SetScale ==
    /\ pc = "l99"
    /\ shapeObject' = [shapeObject EXCEPT !.scale = VecScale(bones[bone].length, Unit3)]
    /\ writes' = Append(writes, <<"scale_set", 0>>)
    /\ pc' = "l103"
    /\ UNCHANGED <<host, bones, locals, result, reports, history>>

\* Lines 102-103: shapeObject.rotation_euler.rotate(armature.rotation_euler)
RotateByArmature ==
    /\ pc = "l103"
    /\ shapeObject' = [shapeObject EXCEPT !.rotation_euler =
                          EulerRotate(@, EulToMat3(armature.rotation_euler))]
    /\ writes' = Append(writes, <<"rotate_armature", 0>>)
    /\ pc' = "l104"
    /\ UNCHANGED <<host, bones, locals, result, reports, history>>

RotateLocationInverse ==
    /\ pc = "l104"
    /\ shapeObject' = [shapeObject EXCEPT !.location =
                          VectorRotate(@, Transposed(EulToMat3(armature.rotation_euler)))]
    /\ writes' = Append(writes, <<"location_rotate", 0>>)
    /\ pc' = "l105"
    /\ UNCHANGED <<host, bones, locals, result, reports, history>>

TranslateLocationAliased ==
    /\ pc = "l105"
    /\ shapeObject' = [shapeObject EXCEPT !.location = VecAdd(@, armature.location)]
    /\ bones' = [bones EXCEPT ![bone].head_local = VecAdd(shapeObject.location, armature.location)]
    /\ writes' = Append(writes, <<"location_add", 0>>)
    /\ pc' = "l108"
    /\ UNCHANGED <<host, locals, result, reports, history>>

\* Line 104: shapeObject.location.rotate(armature.rotation_euler)
RotateLocation ==
    /\ pc = "l104"
    /\ shapeObject' = [shapeObject EXCEPT !.location =
                          VectorRotate(@, EulToMat3(armature.rotation_euler))]
    /\ writes' = Append(writes, <<"location_rotate", 0>>)
    /\ pc' = "l105"
    /\ UNCHANGED <<host, bones, locals, result, reports, history>>

\* Line 105: shapeObject.location += armature.location
TranslateLocation ==
    /\ pc = "l105"
    /\ shapeObject' = [shapeObject EXCEPT !.location = VecAdd(@, armature.location)]
    /\ writes' = Append(writes, <<"location_add", 0>>)
    /\ pc' = "l108"
    /\ UNCHANGED <<host, bones, locals, result, reports, history>>

\* The report type line 111 passes.
WarningType == "Warning"

\* Lines 108-111: the armature's scale is compared with 1 on each axis;
\* self.report takes a set of the host's report types and raises TypeError
\* on a string that is not one of them.
ValidateScale ==
    /\ pc = "l108"
    /\ IF armature.scale[1] # 1 \/ armature.scale[2] # 1 \/ armature.scale[3] # 1
       THEN IF WarningType \in ReportTypes
            THEN /\ reports' = Append(reports, WarningType)
                 /\ pc' = "l113"
                 /\ UNCHANGED result
            ELSE /\ Raise("TypeError")
                 /\ UNCHANGED reports
       ELSE /\ pc' = "l113"
            /\ UNCHANGED <<result, reports>>
    /\ UNCHANGED <<host, bones, shapeObject, locals, history, writes>>

\* Line 113: return {'FINISHED'}
Return ==
    /\ pc = "l113"
    /\ result' = "FINISHED"
    /\ pc' = "done"
    /\ UNCHANGED <<host, bones, shapeObject, locals, reports, history, writes>>

Next ==
    \/ Invoke
    \/ ResolveArmature
    \/ ResolveBone
    \/ ResolveShape
    \/ ResetRotation
    \/ BuildChain
    \/ ShowWire
    \/ RotateByBone
    \/ EndLoop
    \/ SetLocation
    \/ SetScale
    \/ RotateByArmature
    \/ RotateLocation
    \/ TranslateLocation
    \/ ValidateScale
    \/ Return

Spec == Init /\ [][Next]_vars

TypeOK ==
    /\ pc \in {"idle", "l76", "l79", "l83", "l87", "l88", "l91", "l93", "l98", "l99",
               "l103", "l104", "l105", "l108", "l113", "done"}
    /\ result \in {"none", "FINISHED", "AttributeError", "TypeError"}
    /\ again \in BOOLEAN

\* ------------------------------------------------------------- properties
\* The context lines 76-84 need: an active object, an active pose bone, and a
\* custom shape that is an object.
Resolved == active_object /\ active_pose_bone # 0 /\ custom_shape

\* The invocation has ended after line 105: the transform is written.
Written == pc = "done" /\ result \in {"FINISHED", "TypeError"}

\* The results the host's operator protocol knows.
OperatorResults == {"FINISHED", "CANCELLED"}

\* The loop of lines 93-95 over a chain taken in the given order.
RECURSIVE FoldRotations(_, _, _)
FoldRotations(bs, order, eul) ==
    IF order = <<>> THEN eul
    ELSE FoldRotations(bs, Tail(order), EulerRotate(eul, BasisMatrix(bs[Head(order)])))

\* Lines 87-95 and 103 with the chain taken in the given order.
RotationResult(bs, order, arm) ==
    EulerRotate(FoldRotations(bs, order, Zero3), EulToMat3(arm.rotation_euler))

\* Lines 98, 104 and 105.
LocationResult(bs, b, arm) ==
    VecAdd(VectorRotate(HeadLocal(bs, b), EulToMat3(arm.rotation_euler)), arm.location)

\* The matrix product of the bases of a sequence of bones, the first bone's
\* basis applied first.
RECURSIVE ProductOf(_, _)
ProductOf(bs, order) ==
    IF order = <<>> THEN Identity3
    ELSE MatMul(ProductOf(bs, Tail(order)), BasisMatrix(bs[Head(order)]))

\* The permutations of 1..n.
ChainPermutations ==
    [n \in 0..NumBones |->
        {g \in [1..n -> 1..n] : \A i, j \in 1..n : g[i] = g[j] => i = j}]

\* The orders a chain can be taken in.
Orders(chain) == {[i \in 1..Len(chain) |-> chain[f[i]]] : f \in ChainPermutations[Len(chain)]}

\* C1: a second invocation on unchanged bone and armature data leaves the
\* shape's location, rotation and scale as the first invocation left them.
C1_Idempotent ==
    (pc = "done" /\ again /\ Resolved) => shapeObject = prev

C1_Witness ==
    /\ Written /\ again /\ result = "FINISHED"
    /\ Len(boneChain) = 3
    /\ shapeObject.rotation_euler # Zero3
    /\ shapeObject = prev

\* C2: an invocation without an active object, without an active pose bone or
\* with a custom shape that is no object ends before any write: the shape's
\* location, rotation and scale and every show_wire flag are as on entry.
C2_AbortUntouched ==
    (pc = "done" /\ ~Resolved) =>
        /\ shapeObject = pre.shape
        /\ \A b \in Bones : bones[b].show_wire = pre.show_wire[b]
        /\ writes = <<>>

C2_Witness ==
    /\ pc = "done" /\ result = "AttributeError"
    /\ active_object /\ active_pose_bone # 0 /\ ~custom_shape
    /\ shapeObject.rotation_euler # Zero3
    /\ shapeObject = pre.shape

\* C3: with an armature scale other than 1 on some axis and the context
\* resolved, the invocation surfaces the warning and ends with the success
\* result.
C3_WarningNonFatal ==
    (pc = "done" /\ Resolved /\ armature.scale # Unit3) =>
        /\ result = "FINISHED"
        /\ reports # <<>>

\* C4: every invocation ends by returning one of the host's operator results,
\* never by an error leaving it.
C4_NoErrorEscapes ==
    pc = "done" => result \in OperatorResults

\* C5: once the transform is written the shape's scale is (L, L, L), L the
\* target bone's length, whatever the chain, the armature's rotation,
\* location and scale, and the shape's scale before.
C5_ScaleLaw ==
    Written =>
        shapeObject.scale = <<bones[active_pose_bone].length,
                              bones[active_pose_bone].length,
                              bones[active_pose_bone].length>>

C5_Witness ==
    /\ Written
    /\ armature.scale # Unit3
    /\ Len(boneChain) >= 2
    /\ pre.shape.scale # shapeObject.scale
    /\ shapeObject.scale = <<2, 2, 2>>

\* C6: once the transform is written the shape's location is the target
\* bone's head_local rotated by the armature's rotation, plus the armature's
\* location; a root bone with head (0,0,0) under an unrotated armature at
\* (5,0,0) gives (5,0,0).
C6_ArmatureOffset ==
    Written =>
        /\ shapeObject.location =
              VecAdd(MatVec(EulToMat3(armature.rotation_euler),
                            bones[active_pose_bone].head_local),
                     armature.location)
        /\ (/\ bones[active_pose_bone].parent = 0
            /\ bones[active_pose_bone].head_local = Zero3
            /\ armature.location = <<5, 0, 0>>
            /\ armature.rotation_euler = Zero3) => shapeObject.location = <<5, 0, 0>>

C6_Witness ==
    /\ Written
    /\ armature.rotation_euler # Zero3
    /\ armature.location # Zero3
    /\ bones[active_pose_bone].head_local # Zero3
    /\ shapeObject.location # VecAdd(bones[active_pose_bone].head_local, armature.location)

\* The bones with their heads replaced.
WithHeads(bs, hs) == [b \in Bones |-> [bs[b] EXCEPT !.head_local = hs[b]]]

\* C7: the location written is the one the operation gives for any other
\* head_local of the target's ancestors (and of the bones outside the chain),
\* the target's head_local and the armature being the same.
C7_ChainIndependence ==
    Written =>
        \A hs \in [Bones -> Heads] :
            hs[active_pose_bone] = bones[active_pose_bone].head_local =>
                shapeObject.location =
                    LocationResult(WithHeads(bones, hs), active_pose_bone, armature)

C7_Witness ==
    /\ Written
    /\ Len(boneChain) = 3
    /\ \E hs \in [Bones -> Heads] :
          /\ hs[active_pose_bone] = bones[active_pose_bone].head_local
          /\ \A i \in 2..Len(boneChain) : hs[boneChain[i]] # bones[boneChain[i]].head_local
          /\ shapeObject.location =
                LocationResult(WithHeads(bones, hs), active_pose_bone, armature)

\* C8 as stated: for a bone with two ancestors or more, folding the chain in
\* any order other than target, parent, ..., root gives a final rotation
\* different from the one the operation produced.
C8_EveryOtherOrderDiffers ==
    (Written /\ Len(boneChain) >= 3) =>
        \A order \in Orders(boneChain) :
            order # boneChain =>
                EulToMat3(RotationResult(bones, order, armature))
                    # EulToMat3(shapeObject.rotation_euler)

\* C8 as amended: for a bone with two ancestors or more, folding the chain in
\* another order gives a different final orientation exactly when the product
\* of the bases taken in that order differs from the product taken target,
\* parent, ..., root; orders that only exchange commuting bases give the same.
C8_OrderSensitive ==
    (Written /\ Len(boneChain) >= 3) =>
        LET targetToRoot == <<active_pose_bone>> \o ParentRecursive(bones, active_pose_bone)
            produced == EulToMat3(shapeObject.rotation_euler)
            product == ProductOf(bones, targetToRoot)
        IN  \A order \in Orders(targetToRoot) :
                (EulToMat3(RotationResult(bones, order, armature)) # produced)
                <=> (ProductOf(bones, order) # product)

C8_Witness ==
    /\ Written /\ Len(boneChain) >= 3
    /\ \E o1, o2 \in Orders(boneChain) :
          /\ o1 # boneChain /\ o2 # boneChain
          /\ EulToMat3(RotationResult(bones, o1, armature))
                # EulToMat3(shapeObject.rotation_euler)
          /\ EulToMat3(RotationResult(bones, o2, armature))
                = EulToMat3(shapeObject.rotation_euler)

\* One step leaves a bone as it is, but for its show_wire flag.
SameBut(b) == [bones'[b] EXCEPT !.show_wire = bones[b].show_wire] = bones[b]

\* C9: no step of an invocation writes anything but the shape's location,
\* rotation and scale and the target bone's show_wire flag: every bone's
\* axes, head_local, length and parent, the armature's location, rotation
\* and scale, and the context stay as they are.
C9_Frame ==
    [][/\ armature' = armature
       /\ <<active_object, active_pose_bone, custom_shape>>'
             = <<active_object, active_pose_bone, custom_shape>>
       /\ \A b \in Bones :
             /\ SameBut(b)
             /\ bones'[b].show_wire # bones[b].show_wire => b = active_pose_bone]_vars

C9_Witness ==
    /\ Written /\ result = "FINISHED"
    /\ bones[active_pose_bone].show_wire
    /\ armature.location # Zero3
    /\ shapeObject.location # bones[active_pose_bone].head_local
    /\ shapeObject # pre.shape

\* The chain of a target: the target first, every next bone the parent of
\* the one before, the last without a parent, no bone twice.
IsChainOf(chain, target) ==
    /\ Len(chain) >= 1
    /\ chain[1] = target
    /\ \A i \in 1..(Len(chain) - 1) : chain[i + 1] = bones[chain[i]].parent
    /\ bones[chain[Len(chain)]].parent = 0
    /\ \A i, j \in 1..Len(chain) : chain[i] = chain[j] => i = j

\* C10: the writes of an invocation come in this order: the rotation reset,
\* one rotation per bone of the chain, target first and root last, each bone
\* once, then location and scale, then the armature's rotation; the final
\* orientation is the armature's rotation after the bases of the chain.
C10_StepOrder ==
    Written =>
        /\ IsChainOf(boneChain, active_pose_bone)
        /\ writes = <<<<"rotation_reset", 0>>, <<"show_wire", active_pose_bone>>>>
                    \o [i \in 1..Len(boneChain) |-> <<"rotate_bone", boneChain[i]>>]
                    \o <<<<"location_set", 0>>, <<"scale_set", 0>>,
                         <<"rotate_armature", 0>>, <<"location_rotate", 0>>,
                         <<"location_add", 0>>>>
        /\ EulToMat3(shapeObject.rotation_euler)
              = MatMul(EulToMat3(armature.rotation_euler), ProductOf(bones, boneChain))

C10_Witness ==
    /\ Written
    /\ Len(boneChain) = 3
    /\ armature.rotation_euler # Zero3
    /\ Len(writes) = 10
    /\ ProductOf(bones, boneChain) # Identity3

=============================================================================
